---- MODULE Spec2Model ----
(***************************************************************************)
(* A model of stargazer's CoordinateTransformations.h: the three templated *)
(* transforms transformLM2World, transformWorld2Img and transformLM2Img,    *)
(* executed statement by statement by one or more threads over a shared    *)
(* caller memory.                                                          *)
(*                                                                         *)
(* The scalar type T is modelled as a small binary floating-point format:  *)
(* a value is an integer count of the quantum 2^-FracBits, and every       *)
(* arithmetic result is rounded to MantBits significant bits (ties to      *)
(* even), as IEEE arithmetic rounds a double.  Non-finite values are not   *)
(* modelled.                                                               *)
(***************************************************************************)
EXTENDS Integers, Sequences, FiniteSets, TLC

(***************************************************************************)
(* The scalar type T                                                       *)
(***************************************************************************)
\* Number of fractional bits of the quantum: the value 1.0 is 2^FracBits.
FracBits == 4
\* Number of significant bits an arithmetic result keeps.
MantBits == 4

One == 2 ^ FracBits
Zero == 0

Abs(a) == IF a < 0 THEN -a ELSE a
Sgn(a) == IF a < 0 THEN -1 ELSE 1

\* The spacing of the representable values around magnitude a.
RECURSIVE Ulp(_)
Ulp(a) == IF a < 2 ^ MantBits THEN 1 ELSE 2 * Ulp(a \div 2)

\* The representable value nearest to the rational n/d (d > 0), ties to even.
RoundQ(n, d) ==
    LET a == Abs(n)
        u == Ulp(a \div d)
        q == d * u
        m == a \div q
        r == a - m * q
        up == IF 2 * r > q THEN 1
              ELSE IF 2 * r = q THEN m % 2
              ELSE 0
    IN  Sgn(n) * (m + up) * u

IsRep(v) == RoundQ(v, 1) = v

\* T's operators +, -, *, / and unary minus.
TAdd(a, b) == RoundQ(a + b, 1)
TSub(a, b) == RoundQ(a - b, 1)
TMul(a, b) == RoundQ(a * b, One)
TDiv(a, b) == RoundQ(Sgn(b) * a * One, Abs(b))
TNeg(a) == -a

\* std::numeric_limits<T>::epsilon(): the gap between 1.0 and the next value.
TEpsilon == Ulp(One)

(***************************************************************************)
(* sqrt, cos and sin of the math library, computed with Guard times the    *)
(* resolution of T and then rounded to T.                                  *)
(***************************************************************************)
Guard == 64
Terms == 8

RECURSIVE ISqrt(_)
ISqrt(n) ==
    IF n < 2 THEN n
    ELSE LET s == 2 * ISqrt(n \div 4)
         IN  IF (s + 1) * (s + 1) <= n THEN s + 1 ELSE s

TSqrt(a) == RoundQ(ISqrt(a * One * Guard * Guard), Guard)

\* Horner evaluation of 1 - x2/(j(j+1)) (1 - x2/((j+2)(j+3)) (1 - ...)),
\* in units of 1/K, with x2 the square of the argument in the same units.
RECURSIVE Horner(_, _, _, _)
Horner(x2, K, j, n) ==
    IF n = 0 THEN K
    ELSE K - (x2 * Horner(x2, K, j + 2, n - 1)) \div (K * j * (j + 1))

TCos(a) ==
    LET K == One * Guard
        x == Abs(a) * Guard
        x2 == (x * x) \div K
    IN  RoundQ(Horner(x2, K, 1, Terms), Guard)

TSin(a) ==
    LET K == One * Guard
        x == Abs(a) * Guard
        x2 == (x * x) \div K
    IN  Sgn(a) * RoundQ(x * Horner(x2, K, 2, Terms), K * Guard)

(***************************************************************************)
(* ceres::AngleAxisRotatePoint(angle_axis, pt, result): Rodrigues' formula *)
(* when the squared angle exceeds epsilon, and the first-order rotation    *)
(* pt + angle_axis x pt otherwise.  Every input is read before the first   *)
(* component of the result is written, so result may be pt.                *)
(***************************************************************************)
DotProduct(a, b) ==
    TAdd(TAdd(TMul(a[1], b[1]), TMul(a[2], b[2])), TMul(a[3], b[3]))

CrossProduct(a, b) ==
    << TSub(TMul(a[2], b[3]), TMul(a[3], b[2])),
       TSub(TMul(a[3], b[1]), TMul(a[1], b[3])),
       TSub(TMul(a[1], b[2]), TMul(a[2], b[1])) >>

AngleAxisIsLarge(angle_axis) == DotProduct(angle_axis, angle_axis) > TEpsilon

AngleAxisTheta(angle_axis) == TSqrt(DotProduct(angle_axis, angle_axis))

AngleAxisRotatePoint(angle_axis, pt) ==
    IF AngleAxisIsLarge(angle_axis)
    THEN LET theta == AngleAxisTheta(angle_axis)
             costheta == TCos(theta)
             sintheta == TSin(theta)
             theta_inverse == TDiv(One, theta)
             w == [i \in 1..3 |-> TMul(angle_axis[i], theta_inverse)]
             w_cross_pt == CrossProduct(w, pt)
             tmp == TMul(DotProduct(w, pt), TSub(One, costheta))
         IN  [i \in 1..3 |->
                 TAdd(TAdd(TMul(pt[i], costheta), TMul(w_cross_pt[i], sintheta)),
                      TMul(w[i], tmp))]
    ELSE LET w_cross_pt == CrossProduct(angle_axis, pt)
         IN  [i \in 1..3 |-> TAdd(pt[i], w_cross_pt[i])]

(***************************************************************************)
(* Caller memory, pointers and stack frames                                *)
(***************************************************************************)
\* Number of threads that may each run one call.
NumThreads == 2
Threads == 1..NumThreads

\* POSE and INTRINSICS: the named slots of a pose and of the intrinsics.
POSE == {"X", "Y", "Z", "Rx", "Ry", "Rz"}
INTRINSICS == {"f", "u0", "v0", "alpha", "beta", "theta"}

ScalarObjs == {"x_in", "y_in", "z_in", "x_out", "y_out", "z_out"}
\* transformLM2Img's locals x_w, y_w, z_w: their addresses are passed on.
LocalObjs == {"x_w", "y_w", "z_w"}

\* A cell is <<owning thread, object, slot>>; a T* points at a cell, and an
\* array argument is its object <<owner, name>>, indexed by slot.
Cells ==
    (Threads \X (ScalarObjs \cup LocalObjs) \X {"val"})
    \cup (Threads \X {"lm_pose", "camera_pose"} \X POSE)
    \cup (Threads \X {"camera_intrinsics"} \X INTRINSICS)

Ptr(t, obj) == <<t, obj, "val">>
Arr(t, obj) == <<t, obj>>
At(arr, slot) == <<arr[1], arr[2], slot>>
Null == <<0, "null", "val">>
NullArr == <<0, "null">>
Vec0 == <<Zero, Zero, Zero>>

NoFrame ==
    [fn |-> "none", pc |-> "none",
     x_in |-> Null, y_in |-> Null, z_in |-> Null,
     lm_pose |-> NullArr, camera_pose |-> NullArr, camera_intrinsics |-> NullArr,
     x_out |-> Null, y_out |-> Null, z_out |-> Null,
     p_lm |-> Vec0, p_w |-> Vec0, p_c |-> Vec0, p_i |-> Vec0,
     angleAxisLM |-> Vec0, angleAxisCam |-> Vec0]

\* The frame of a call at its entry.
FrameLM2World(x_in, y_in, lm_pose, x_out, y_out, z_out) ==
    [NoFrame EXCEPT !.fn = "transformLM2World", !.pc = "L42",
                    !.x_in = x_in, !.y_in = y_in, !.lm_pose = lm_pose,
                    !.x_out = x_out, !.y_out = y_out, !.z_out = z_out]

FrameWorld2Img(x_in, y_in, z_in, camera_pose, camera_intrinsics, x_out, y_out) ==
    [NoFrame EXCEPT !.fn = "transformWorld2Img", !.pc = "L82",
                    !.x_in = x_in, !.y_in = y_in, !.z_in = z_in,
                    !.camera_pose = camera_pose,
                    !.camera_intrinsics = camera_intrinsics,
                    !.x_out = x_out, !.y_out = y_out]

FrameLM2Img(x_in, y_in, lm_pose, camera_pose, camera_intrinsics, x_out, y_out) ==
    [NoFrame EXCEPT !.fn = "transformLM2Img", !.pc = "L141",
                    !.x_in = x_in, !.y_in = y_in, !.lm_pose = lm_pose,
                    !.camera_pose = camera_pose,
                    !.camera_intrinsics = camera_intrinsics,
                    !.x_out = x_out, !.y_out = y_out]

VARIABLES
    mem,     \* caller memory and the addressable locals: [Cells -> T]
    stack,   \* per thread, its call stack of frames, innermost first
    cout,    \* std::cout: the sequence of <<thread, what>> inserted so far
    call,    \* per thread, the frame of its outermost call at entry
    mem0,    \* the memory at the entry of the calls
    acc,     \* per thread, its accesses <<"r" or "w", cell>> in program order
    divs     \* per thread, the T divisions it executed: <<line, divisor>>

vars == <<mem, stack, cout, call, mem0, acc, divs>>

At_(t, fn, pc) ==
    /\ stack[t] # <<>>
    /\ Head(stack[t]).fn = fn
    /\ Head(stack[t]).pc = pc

Top(t) == Head(stack[t])
Goto(t, f) == stack' = [stack EXCEPT ![t] = <<f>> \o Tail(@)]
Return(t) == stack' = [stack EXCEPT ![t] = Tail(@)]
Reads(t, cells) == acc' = [acc EXCEPT ![t] = @ \o [i \in 1..Len(cells) |-> <<"r", cells[i]>>]]
Writes(t, cell) == acc' = [acc EXCEPT ![t] = Append(@, <<"w", cell>>)]

(***************************************************************************)
(* transformLM2World, lines 38-63                                          *)
(***************************************************************************)
\* 42-44: p_lm = (*x_in, *y_in, T(0.))
LM2World_L42(t) ==
    /\ At_(t, "transformLM2World", "L42")
    /\ LET f == Top(t)
       IN  /\ Goto(t, [f EXCEPT !.pc = "L49",
                                !.p_lm = <<mem[f.x_in], mem[f.y_in], Zero>>])
           /\ Reads(t, <<f.x_in, f.y_in>>)
    /\ UNCHANGED <<mem, cout, call, mem0, divs>>

\* 49-51: angleAxisLM = lm_pose[Rx], lm_pose[Ry], lm_pose[Rz]
LM2World_L49(t) ==
    /\ At_(t, "transformLM2World", "L49")
    /\ LET f == Top(t)
           rx == At(f.lm_pose, "Rx")
           ry == At(f.lm_pose, "Ry")
           rz == At(f.lm_pose, "Rz")
       IN  /\ Goto(t, [f EXCEPT !.pc = "L53",
                                !.angleAxisLM = <<mem[rx], mem[ry], mem[rz]>>])
           /\ Reads(t, <<rx, ry, rz>>)
    /\ UNCHANGED <<mem, cout, call, mem0, divs>>

\* The division 1/theta that AngleAxisRotatePoint executes for a large angle.
RotateDivs(line, angle_axis) ==
    IF AngleAxisIsLarge(angle_axis)
    THEN << <<line, AngleAxisTheta(angle_axis)>> >>
    ELSE << >>

\* 53: ceres::AngleAxisRotatePoint(angleAxisLM, p_lm, p_w)
LM2World_L53(t) ==
    /\ At_(t, "transformLM2World", "L53")
    /\ LET f == Top(t)
       IN  /\ Goto(t, [f EXCEPT !.pc = "L56",
                                !.p_w = AngleAxisRotatePoint(f.angleAxisLM, f.p_lm)])
           /\ divs' = [divs EXCEPT ![t] = @ \o RotateDivs(53, f.angleAxisLM)]
    /\ UNCHANGED <<mem, cout, call, mem0, acc>>

\* A variant of lines 56-58 without line 58.
AddTranslation_NoZ(p_w, tx, ty, tz) ==
    <<TAdd(p_w[1], tx), TAdd(p_w[2], ty), p_w[3]>>

\* The world point of lines 56-58: the rotated point plus the translation.
AddTranslation(p_w, tx, ty, tz) ==
    <<TAdd(p_w[1], tx), TAdd(p_w[2], ty), TAdd(p_w[3], tz)>>

\* A variant of lines 56-58 that stores x through x_out at once, before it
\* reads lm_pose[Y] and lm_pose[Z].
LM2World_L56_WritesEarly(t) ==
    /\ At_(t, "transformLM2World", "L56")
    /\ LET f == Top(t)
           tx == At(f.lm_pose, "X")
           ty == At(f.lm_pose, "Y")
           tz == At(f.lm_pose, "Z")
           x == TAdd(f.p_w[1], mem[tx])
           m == [mem EXCEPT ![f.x_out] = x]
       IN  /\ mem' = m
           /\ Goto(t, [f EXCEPT !.pc = "L60",
                                !.p_w = <<x, TAdd(f.p_w[2], m[ty]), TAdd(f.p_w[3], m[tz])>>])
           /\ acc' = [acc EXCEPT ![t] =
                         @ \o << <<"r", tx>>, <<"w", f.x_out>>, <<"r", ty>>, <<"r", tz>> >>]
    /\ UNCHANGED <<cout, call, mem0, divs>>

\* 56-58: p_w += lm_pose[X], lm_pose[Y], lm_pose[Z]
LM2World_L56(t) ==
    /\ At_(t, "transformLM2World", "L56")
    /\ LET f == Top(t)
           tx == At(f.lm_pose, "X")
           ty == At(f.lm_pose, "Y")
           tz == At(f.lm_pose, "Z")
       IN  /\ Goto(t, [f EXCEPT !.pc = "L60",
                                !.p_w = AddTranslation(f.p_w, mem[tx], mem[ty], mem[tz])])
           /\ Reads(t, <<tx, ty, tz>>)
    /\ UNCHANGED <<mem, cout, call, mem0, divs>>

\* 60: *x_out = p_w[0]
LM2World_L60(t) ==
    /\ At_(t, "transformLM2World", "L60")
    /\ LET f == Top(t)
       IN  /\ mem' = [mem EXCEPT ![f.x_out] = f.p_w[1]]
           /\ Goto(t, [f EXCEPT !.pc = "L61"])
           /\ Writes(t, f.x_out)
    /\ UNCHANGED <<cout, call, mem0, divs>>

\* 61: *y_out = p_w[1]
LM2World_L61(t) ==
    /\ At_(t, "transformLM2World", "L61")
    /\ LET f == Top(t)
       IN  /\ mem' = [mem EXCEPT ![f.y_out] = f.p_w[2]]
           /\ Goto(t, [f EXCEPT !.pc = "L62"])
           /\ Writes(t, f.y_out)
    /\ UNCHANGED <<cout, call, mem0, divs>>

\* 62-63: *z_out = p_w[2]; return
LM2World_L62(t) ==
    /\ At_(t, "transformLM2World", "L62")
    /\ LET f == Top(t)
       IN  /\ mem' = [mem EXCEPT ![f.z_out] = f.p_w[3]]
           /\ Writes(t, f.z_out)
    /\ Return(t)
    /\ UNCHANGED <<cout, call, mem0, divs>>

(***************************************************************************)
(* transformWorld2Img, lines 78-124                                        *)
(***************************************************************************)
\* 82-84: p_w = (*x_in, *y_in, *z_in)
World2Img_L82(t) ==
    /\ At_(t, "transformWorld2Img", "L82")
    /\ LET f == Top(t)
       IN  /\ Goto(t, [f EXCEPT !.pc = "L91",
                                !.p_w = <<mem[f.x_in], mem[f.y_in], mem[f.z_in]>>])
           /\ Reads(t, <<f.x_in, f.y_in, f.z_in>>)
    /\ UNCHANGED <<mem, cout, call, mem0, divs>>

\* A variant of lines 91-93 that adds the camera translation.
SubTranslation_Adds(p_w, tx, ty, tz) ==
    <<TAdd(p_w[1], tx), TAdd(p_w[2], ty), TAdd(p_w[3], tz)>>

\* The point of lines 91-93: the world point minus the camera translation.
SubTranslation(p_w, tx, ty, tz) ==
    <<TSub(p_w[1], tx), TSub(p_w[2], ty), TSub(p_w[3], tz)>>

\* 91-93: p_c = p_w - camera_pose[X], camera_pose[Y], camera_pose[Z]
World2Img_L91(t) ==
    /\ At_(t, "transformWorld2Img", "L91")
    /\ LET f == Top(t)
           tx == At(f.camera_pose, "X")
           ty == At(f.camera_pose, "Y")
           tz == At(f.camera_pose, "Z")
       IN  /\ Goto(t, [f EXCEPT !.pc = "L95",
                                !.p_c = SubTranslation(f.p_w, mem[tx], mem[ty], mem[tz])])
           /\ Reads(t, <<tx, ty, tz>>)
    /\ UNCHANGED <<mem, cout, call, mem0, divs>>

\* 95-97: angleAxisCam = -camera_pose[Rx], -camera_pose[Ry], -camera_pose[Rz]
World2Img_L95(t) ==
    /\ At_(t, "transformWorld2Img", "L95")
    /\ LET f == Top(t)
           rx == At(f.camera_pose, "Rx")
           ry == At(f.camera_pose, "Ry")
           rz == At(f.camera_pose, "Rz")
       IN  /\ Goto(t, [f EXCEPT !.pc = "L98",
                                !.angleAxisCam =
                                    <<TNeg(mem[rx]), TNeg(mem[ry]), TNeg(mem[rz])>>])
           /\ Reads(t, <<rx, ry, rz>>)
    /\ UNCHANGED <<mem, cout, call, mem0, divs>>

\* 98: ceres::AngleAxisRotatePoint(angleAxisCam, p_c, p_c)
World2Img_L98(t) ==
    /\ At_(t, "transformWorld2Img", "L98")
    /\ LET f == Top(t)
       IN  /\ Goto(t, [f EXCEPT !.pc = "L108",
                                !.p_c = AngleAxisRotatePoint(f.angleAxisCam, f.p_c)])
           /\ divs' = [divs EXCEPT ![t] = @ \o RotateDivs(98, f.angleAxisCam)]
    /\ UNCHANGED <<mem, cout, call, mem0, acc>>

\* A variant of line 108-109 that takes the principal point from the v0 slot.
ProjectX_WrongSlot(k, p_c) ==
    TAdd(TAdd(TMul(TMul(k.f, k.alpha), p_c[1]), TMul(Zero, p_c[2])),
         TMul(k.v0, p_c[3]))

\* The homogeneous image point of lines 108-113; k is the intrinsics.
ProjectX(k, p_c) ==
    TAdd(TAdd(TMul(TMul(k.f, k.alpha), p_c[1]), TMul(Zero, p_c[2])),
         TMul(k.u0, p_c[3]))

\* A variant of line 110 that computes the skew term from the theta slot.
ProjectY_Skew(k, p_c) ==
    TAdd(TAdd(TMul(k.theta, p_c[1]),
              TDiv(TMul(TMul(k.f, k.beta), p_c[2]), One)),
         TMul(k.v0, p_c[3]))

ProjectY(k, p_c) ==
    TAdd(TAdd(TMul(Zero, p_c[1]),
              TDiv(TMul(TMul(k.f, k.beta), p_c[2]), One)),
         TMul(k.v0, p_c[3]))

Project(k, p_c) == <<ProjectX(k, p_c), ProjectY(k, p_c), p_c[3]>>

\* 108-113: p_i = projection of p_c; the slots read are f, alpha, u0, beta, v0
World2Img_L108(t) ==
    /\ At_(t, "transformWorld2Img", "L108")
    /\ LET f == Top(t)
           used == <<"f", "alpha", "u0", "f", "beta", "v0">>
           k == [s \in INTRINSICS |-> mem[At(f.camera_intrinsics, s)]]
       IN  /\ Goto(t, [f EXCEPT !.pc = "L114", !.p_i = Project(k, f.p_c)])
           /\ Reads(t, [i \in 1..Len(used) |-> At(f.camera_intrinsics, used[i])])
           /\ divs' = [divs EXCEPT ![t] = Append(@, <<111, One>>)]
    /\ UNCHANGED <<mem, cout, call, mem0>>

\* A variant of line 114 that tests the depth against a tolerance band.
DepthIsZero_Tolerance(p_i) == Abs(p_i[3]) <= TEpsilon

\* The test of line 114.
DepthIsZero(p_i) == p_i[3] = Zero

\* 114: if (p_i[2] == T(0))
World2Img_L114(t) ==
    /\ At_(t, "transformWorld2Img", "L114")
    /\ LET f == Top(t)
       IN  Goto(t, [f EXCEPT !.pc = IF DepthIsZero(f.p_i) THEN "L115" ELSE "L118"])
    /\ UNCHANGED <<mem, cout, call, mem0, acc, divs>>

\* 115: std::cout << "WARNING; Attempt to divide by 0!"
World2Img_L115(t) ==
    /\ At_(t, "transformWorld2Img", "L115")
    /\ cout' = Append(cout, <<t, "WARNING; Attempt to divide by 0!">>)
    /\ Goto(t, [Top(t) EXCEPT !.pc = "L115_endl"])
    /\ UNCHANGED <<mem, call, mem0, acc, divs>>

\* 115: ... << std::endl
World2Img_L115_endl(t) ==
    /\ At_(t, "transformWorld2Img", "L115_endl")
    /\ cout' = Append(cout, <<t, "endl">>)
    /\ Goto(t, [Top(t) EXCEPT !.pc = "L116"])
    /\ UNCHANGED <<mem, call, mem0, acc, divs>>

\* A variant of line 116 that clears the outputs before it returns.
World2Img_L116_ClearsOutputs(t) ==
    /\ At_(t, "transformWorld2Img", "L116")
    /\ LET f == Top(t)
       IN  /\ mem' = [mem EXCEPT ![f.x_out] = Zero, ![f.y_out] = Zero]
           /\ acc' = [acc EXCEPT ![t] = @ \o << <<"w", f.x_out>>, <<"w", f.y_out>> >>]
    /\ Return(t)
    /\ UNCHANGED <<cout, call, mem0, divs>>

\* 116: return
World2Img_L116(t) ==
    /\ At_(t, "transformWorld2Img", "L116")
    /\ Return(t)
    /\ UNCHANGED <<mem, cout, call, mem0, acc, divs>>

\* The image point of lines 118-120.
PerspectiveDivide(p_i) ==
    LET i0 == TDiv(p_i[1], p_i[3])
        i1 == TDiv(p_i[2], p_i[3])
        i2 == TDiv(p_i[3], p_i[3])
    IN  <<i0, i1, i2>>

\* 118-120: p_i = p_i / p_i[2]
World2Img_L118(t) ==
    /\ At_(t, "transformWorld2Img", "L118")
    /\ LET f == Top(t)
       IN  /\ Goto(t, [f EXCEPT !.pc = "L122", !.p_i = PerspectiveDivide(f.p_i)])
           /\ divs' = [divs EXCEPT ![t] =
                          @ \o << <<118, f.p_i[3]>>, <<119, f.p_i[3]>>, <<120, f.p_i[3]>> >>]
    /\ UNCHANGED <<mem, cout, call, mem0, acc>>

\* 122: *x_out = p_i[0]
World2Img_L122(t) ==
    /\ At_(t, "transformWorld2Img", "L122")
    /\ LET f == Top(t)
       IN  /\ mem' = [mem EXCEPT ![f.x_out] = f.p_i[1]]
           /\ Goto(t, [f EXCEPT !.pc = "L123"])
           /\ Writes(t, f.x_out)
    /\ UNCHANGED <<cout, call, mem0, divs>>

\* 123-124: *y_out = p_i[1]; return
World2Img_L123(t) ==
    /\ At_(t, "transformWorld2Img", "L123")
    /\ LET f == Top(t)
       IN  /\ mem' = [mem EXCEPT ![f.y_out] = f.p_i[2]]
           /\ Writes(t, f.y_out)
    /\ Return(t)
    /\ UNCHANGED <<cout, call, mem0, divs>>

(***************************************************************************)
(* transformLM2Img, lines 138-143                                          *)
(***************************************************************************)
\* The callee frames of lines 141 and 142; f is the caller's frame.
\* A variant of line 140 with static x_w, y_w, z_w: one set for all threads.
LocalPtr_Static(t, obj) == Ptr(1, obj)

\* 140: T x_w, y_w, z_w: automatic variables, one set per call.
LocalPtr(t, obj) == Ptr(t, obj)

CallLM2World(t, f) ==
    FrameLM2World(f.x_in, f.y_in, f.lm_pose,
                  LocalPtr(t, "x_w"), LocalPtr(t, "y_w"), LocalPtr(t, "z_w"))

\* A variant of line 142 that passes the landmark pose as the camera pose.
CallWorld2Img_WrongPose(t, f) ==
    FrameWorld2Img(LocalPtr(t, "x_w"), LocalPtr(t, "y_w"), LocalPtr(t, "z_w"),
                   f.lm_pose, f.camera_intrinsics, f.x_out, f.y_out)

CallWorld2Img(t, f) ==
    FrameWorld2Img(LocalPtr(t, "x_w"), LocalPtr(t, "y_w"), LocalPtr(t, "z_w"),
                   f.camera_pose, f.camera_intrinsics, f.x_out, f.y_out)

\* 141: transformLM2World(x_in, y_in, lm_pose, &x_w, &y_w, &z_w)
LM2Img_L141(t) ==
    /\ At_(t, "transformLM2Img", "L141")
    /\ LET f == Top(t)
       IN  stack' = [stack EXCEPT ![t] =
                        <<CallLM2World(t, f), [f EXCEPT !.pc = "L142"]>> \o Tail(@)]
    /\ UNCHANGED <<mem, cout, call, mem0, acc, divs>>

\* 142: transformWorld2Img(&x_w, &y_w, &z_w, camera_pose, camera_intrinsics, x_out, y_out)
LM2Img_L142(t) ==
    /\ At_(t, "transformLM2Img", "L142")
    /\ LET f == Top(t)
       IN  stack' = [stack EXCEPT ![t] =
                        <<CallWorld2Img(t, f), [f EXCEPT !.pc = "L143"]>> \o Tail(@)]
    /\ UNCHANGED <<mem, cout, call, mem0, acc, divs>>

\* A variant of line 143 that reports a failure of its own before it returns.
LM2Img_L143_Prints(t) ==
    /\ At_(t, "transformLM2Img", "L143")
    /\ cout' = Append(cout, <<t, "endl">>)
    /\ Return(t)
    /\ UNCHANGED <<mem, call, mem0, acc, divs>>

\* 143: return
LM2Img_L143(t) ==
    /\ At_(t, "transformLM2Img", "L143")
    /\ Return(t)
    /\ UNCHANGED <<mem, cout, call, mem0, acc, divs>>

Step(t) ==
    \/ LM2World_L42(t)
    \/ LM2World_L49(t)
    \/ LM2World_L53(t)
    \/ LM2World_L56(t)
    \/ LM2World_L60(t)
    \/ LM2World_L61(t)
    \/ LM2World_L62(t)
    \/ World2Img_L82(t)
    \/ World2Img_L91(t)
    \/ World2Img_L95(t)
    \/ World2Img_L98(t)
    \/ World2Img_L108(t)
    \/ World2Img_L114(t)
    \/ World2Img_L115(t)
    \/ World2Img_L115_endl(t)
    \/ World2Img_L116(t)
    \/ World2Img_L118(t)
    \/ World2Img_L122(t)
    \/ World2Img_L123(t)
    \/ LM2Img_L141(t)
    \/ LM2Img_L142(t)
    \/ LM2Img_L143(t)

Next == \E t \in Threads : Step(t)

(***************************************************************************)
(* The calls: arguments, memory at entry, and the specifications           *)
(***************************************************************************)
\* Largest landmark or world coordinate, in halves.
MaxCoord == 2
\* Largest rotation-vector component, in quarters of a radian.
MaxRot == 2
\* Largest translation component, in multiples of TransStep.
MaxTrans == 1

Half == One \div 2
Quarter == One \div 4
TransStep == 5 * One
\* What the output locations and x_w, y_w, z_w hold before a call.
Prior == 3 * One

Rep(S) == {v \in S : IsRep(v)}
Coords == Rep({c * Half : c \in -MaxCoord..MaxCoord})
Depths == Rep({0, 1, One, TransStep})
RotComps == Rep({r * Quarter : r \in 0..MaxRot})
TransComps == Rep({c * TransStep : c \in 0..MaxTrans})

\* A pose: translation (X, Y, Z) and rotation vector (Rx, Ry, Rz).
PoseOf(tr, rot) ==
    [X |-> tr[1], Y |-> tr[2], Z |-> tr[3], Rx |-> rot[1], Ry |-> rot[2], Rz |-> rot[3]]
Rotations ==
    {<<rx, ry, Zero>> : rx \in RotComps, ry \in {Zero, Quarter}}
    \cup {<<Zero, -Half, Half>>}
Translations == {<<tx, Zero, tz>> : tx \in TransComps, tz \in TransComps \cup {One}}
Poses == {PoseOf(tr, rot) : tr \in Translations, rot \in Rotations}
ZeroPose == PoseOf(Vec0, Vec0)

\* Intrinsics: f, then a row <<u0, v0, alpha, beta>>, then theta.
Intrinsics ==
    {[f |-> f, u0 |-> r[1], v0 |-> r[2], alpha |-> r[3], beta |-> r[4], theta |-> th] :
        f \in {One, 2 * One},
        r \in {<<Zero, Zero, One, One>>, <<Half, One, One + Half, 2 * One>>},
        th \in {Zero, One}}
ZeroIntrinsics ==
    [f |-> Zero, u0 |-> Zero, v0 |-> Zero, alpha |-> Zero, beta |-> Zero, theta |-> Zero]

\* The values a caller passes: the point, the two poses and the intrinsics.
Input(x, y, z, lm, cam, k) ==
    [x |-> x, y |-> y, z |-> z, lm_pose |-> lm, camera_pose |-> cam,
     camera_intrinsics |-> k]
NoInput == Input(Zero, Zero, Zero, ZeroPose, ZeroPose, ZeroIntrinsics)

InputsLM2World ==
    {Input(x, y, Zero, lm, ZeroPose, ZeroIntrinsics) :
        x \in Coords, y \in Coords, lm \in Poses}
InputsWorld2Img ==
    {Input(x, y, z, ZeroPose, cam, k) :
        x \in {Zero, One}, y \in {Zero, -Half}, z \in Depths, cam \in Poses,
        k \in Intrinsics}
\* The camera poses tried with landmark pose lm: lm itself and two others.
CameraPosesWith(lm) ==
    {lm, ZeroPose, PoseOf(<<Zero, Zero, One>>, <<Half, Quarter, Zero>>)}
InputsLM2Img ==
    UNION {{Input(x, y, Zero, lm, cam, k) :
               x \in {Zero, One}, y \in {Zero, -Half}, cam \in CameraPosesWith(lm),
               k \in {i \in Intrinsics : i.theta = One /\ i.f = One}} :
           lm \in Poses}

\* The memory in which thread t's objects hold in[t].
MemoryOf(in) ==
    [c \in Cells |->
        LET i == in[c[1]]
        IN  CASE c[2] = "x_in" -> i.x
              [] c[2] = "y_in" -> i.y
              [] c[2] = "z_in" -> i.z
              [] c[2] = "lm_pose" -> i.lm_pose[c[3]]
              [] c[2] = "camera_pose" -> i.camera_pose[c[3]]
              [] c[2] = "camera_intrinsics" -> i.camera_intrinsics[c[3]]
              [] OTHER -> Prior]

\* A call of fn by thread t on its own objects.
OwnCall(t, fn) ==
    CASE fn = "transformLM2World" ->
             FrameLM2World(Ptr(t, "x_in"), Ptr(t, "y_in"), Arr(t, "lm_pose"),
                           Ptr(t, "x_out"), Ptr(t, "y_out"), Ptr(t, "z_out"))
      [] fn = "transformWorld2Img" ->
             FrameWorld2Img(Ptr(t, "x_in"), Ptr(t, "y_in"), Ptr(t, "z_in"),
                            Arr(t, "camera_pose"), Arr(t, "camera_intrinsics"),
                            Ptr(t, "x_out"), Ptr(t, "y_out"))
      [] fn = "transformLM2Img" ->
             FrameLM2Img(Ptr(t, "x_in"), Ptr(t, "y_in"), Arr(t, "lm_pose"),
                         Arr(t, "camera_pose"), Arr(t, "camera_intrinsics"),
                         Ptr(t, "x_out"), Ptr(t, "y_out"))
      [] OTHER -> NoFrame

\* The state in which each thread t enters the call frames[t] (NoFrame: none).
Enter(frames, in) ==
    /\ mem = MemoryOf(in)
    /\ mem0 = mem
    /\ call = frames
    /\ stack = [t \in Threads |-> IF frames[t].fn = "none" THEN <<>> ELSE <<frames[t]>>]
    /\ cout = <<>>
    /\ acc = [t \in Threads |-> <<>>]
    /\ divs = [t \in Threads |-> <<>>]

InputsOf(fn) ==
    CASE fn = "transformLM2World" -> InputsLM2World
      [] fn = "transformWorld2Img" -> InputsWorld2Img
      [] fn = "transformLM2Img" -> InputsLM2Img

Functions == {"transformLM2World", "transformWorld2Img", "transformLM2Img"}

\* One call, by thread 1, on objects of its own.
Init ==
    \E fn \in Functions : \E i \in InputsOf(fn) :
        Enter([t \in Threads |-> IF t = 1 THEN OwnCall(t, fn) ELSE NoFrame],
              [t \in Threads |-> IF t = 1 THEN i ELSE NoInput])

Spec == Init /\ [][Next]_vars

(***************************************************************************)
(* What a call was given and what it did                                   *)
(***************************************************************************)
Called(t, fn) == call[t].fn = fn
Done(t) == call[t].fn # "none" /\ stack[t] = <<>>

\* The arguments of thread t's call as they were at its entry.
PoseAt(m, arr) == [s \in POSE |-> m[At(arr, s)]]
IntrinsicsAt(m, arr) == [s \in INTRINSICS |-> m[At(arr, s)]]
LmPose(t) == PoseAt(mem0, call[t].lm_pose)
CameraPose(t) == PoseAt(mem0, call[t].camera_pose)
CameraIntrinsics(t) == IntrinsicsAt(mem0, call[t].camera_intrinsics)
Rotation(pose) == <<pose.Rx, pose.Ry, pose.Rz>>
Translation(pose) == <<pose.X, pose.Y, pose.Z>>

\* The result of lines 42-58 for landmark point (x, y) and pose lm.
LM2WorldPoint(x, y, lm) ==
    AddTranslation(AngleAxisRotatePoint(Rotation(lm), <<x, y, Zero>>),
                   lm.X, lm.Y, lm.Z)

\* The camera-relative point of lines 82-98 for world point p_w and pose cam.
CameraPoint(p_w, cam) ==
    AngleAxisRotatePoint(<<TNeg(cam.Rx), TNeg(cam.Ry), TNeg(cam.Rz)>>,
                         SubTranslation(p_w, cam.X, cam.Y, cam.Z))

\* The world point thread t's call projects: its input for transformWorld2Img,
\* the landmark point taken to the world for transformLM2Img.
WorldPoint(t) ==
    IF Called(t, "transformWorld2Img")
    THEN <<mem0[call[t].x_in], mem0[call[t].y_in], mem0[call[t].z_in]>>
    ELSE LM2WorldPoint(mem0[call[t].x_in], mem0[call[t].y_in], LmPose(t))

\* Its camera-relative point (px, py, pz).
CamPoint(t) == CameraPoint(WorldPoint(t), CameraPose(t))

\* What the call printed, wrote and divided by.
Printed(t) == SelectSeq(cout, LAMBDA e : e[1] = t)
Diagnostic(t) == <<<<t, "WARNING; Attempt to divide by 0!">>, <<t, "endl">>>>
Wrote(t, cell) == \E i \in 1..Len(acc[t]) : acc[t][i] = <<"w", cell>>
OutputsUntouched(t) ==
    /\ ~Wrote(t, call[t].x_out)
    /\ ~Wrote(t, call[t].y_out)
    /\ mem[call[t].x_out] = mem0[call[t].x_out]
    /\ mem[call[t].y_out] = mem0[call[t].y_out]
DividedAt(t, lines) == \E i \in 1..Len(divs[t]) : divs[t][i][1] \in lines

(***************************************************************************)
(* Claims about one call (specification Spec)                              *)
(***************************************************************************)
DegenerateCall(t) ==
    /\ Done(t)
    /\ Called(t, "transformWorld2Img")
    /\ CamPoint(t)[3] = Zero

\* C1, as stated: a transformWorld2Img call whose camera-relative z is exactly
\* zero emits the diagnostic, performs no division at all, returns, and leaves
\* *x_out and *y_out as they were.
C1_NoDivisionAtAll ==
    \A t \in Threads :
        DegenerateCall(t) =>
            /\ Printed(t) = Diagnostic(t)
            /\ divs[t] = <<>>
            /\ OutputsUntouched(t)

\* C1, amended: such a call emits the diagnostic, never divides by the depth
\* (lines 118-120 are not executed and no divisor is zero; the divisions that
\* do run are the one by T(1) of line 111 and the rotation's 1/theta), returns,
\* and leaves *x_out and *y_out as they were.
C1_DegenerateDepth ==
    \A t \in Threads :
        DegenerateCall(t) =>
            /\ Printed(t) = Diagnostic(t)
            /\ ~DividedAt(t, {118, 119, 120})
            /\ \A i \in 1..Len(divs[t]) :
                   divs[t][i][2] # Zero /\ divs[t][i][1] \in {98, 111}
            /\ OutputsUntouched(t)

C1_Witness ==
    /\ DegenerateCall(1)
    /\ Rotation(CameraPose(1)) # Vec0
    /\ Len(divs[1]) = 2

\* C2: a transformWorld2Img call with pz # 0 writes
\* x_out = (f*alpha*px + u0*pz)/pz and y_out = (f*beta*py + v0*pz)/pz; with no
\* rotation, the camera at the origin, f = alpha = beta = 1 and u0 = v0 = 0 the
\* world point (0, 0, 5) projects to (0, 0).
C2_Projection ==
    \A t \in Threads :
        (Done(t) /\ Called(t, "transformWorld2Img") /\ CamPoint(t)[3] # Zero) =>
            LET p == CamPoint(t)
                k == CameraIntrinsics(t)
            IN  /\ mem[call[t].x_out] =
                       TDiv(TAdd(TMul(TMul(k.f, k.alpha), p[1]), TMul(k.u0, p[3])), p[3])
                /\ mem[call[t].y_out] =
                       TDiv(TAdd(TMul(TMul(k.f, k.beta), p[2]), TMul(k.v0, p[3])), p[3])
                /\ ( /\ WorldPoint(t) = <<Zero, Zero, 5 * One>>
                     /\ CameraPose(t) = ZeroPose
                     /\ k.f = One /\ k.alpha = One /\ k.beta = One
                     /\ k.u0 = Zero /\ k.v0 = Zero )
                   => (mem[call[t].x_out] = Zero /\ mem[call[t].y_out] = Zero)

C2_Witness ==
    /\ Done(1) /\ Called(1, "transformWorld2Img")
    /\ WorldPoint(1) = <<Zero, Zero, 5 * One>>
    /\ CameraPose(1) = ZeroPose
    /\ CameraIntrinsics(1).f = One /\ CameraIntrinsics(1).alpha = One
    /\ CameraIntrinsics(1).beta = One
    /\ CameraIntrinsics(1).u0 = Zero /\ CameraIntrinsics(1).v0 = Zero
    /\ mem0[call[1].x_out] # Zero /\ mem[call[1].x_out] = Zero
    /\ mem0[call[1].y_out] # Zero /\ mem[call[1].y_out] = Zero

\* What transformWorld2Img writes for world point p_w when the depth is not zero.
World2ImgPoint(p_w, cam, k) == PerspectiveDivide(Project(k, CameraPoint(p_w, cam)))

\* C3: with non-degenerate depth, transformLM2Img writes the (x_out, y_out) that
\* transformWorld2Img writes for the world point transformLM2World produces.
C3_Composition ==
    \A t \in Threads :
        (Done(t) /\ Called(t, "transformLM2Img") /\ CamPoint(t)[3] # Zero) =>
            LET p_w == LM2WorldPoint(mem0[call[t].x_in], mem0[call[t].y_in], LmPose(t))
                img == World2ImgPoint(p_w, CameraPose(t), CameraIntrinsics(t))
            IN  /\ mem[call[t].x_out] = img[1]
                /\ mem[call[t].y_out] = img[2]

C3_Witness ==
    /\ Done(1) /\ Called(1, "transformLM2Img") /\ CamPoint(1)[3] # Zero
    /\ Rotation(LmPose(1)) # Vec0 /\ Rotation(CameraPose(1)) # Vec0
    /\ mem[call[1].x_out] # mem[call[1].y_out]
    /\ mem[call[1].x_out] # mem0[call[1].x_out]

\* C4: with a zero rotation vector transformLM2World writes (x+tx, y+ty, tz),
\* and (x, y, 0) when the translation is zero too.
C4_ZeroRotation ==
    \A t \in Threads :
        (Done(t) /\ Called(t, "transformLM2World") /\ Rotation(LmPose(t)) = Vec0) =>
            LET x == mem0[call[t].x_in]
                y == mem0[call[t].y_in]
                lm == LmPose(t)
            IN  /\ mem[call[t].x_out] = TAdd(x, lm.X)
                /\ mem[call[t].y_out] = TAdd(y, lm.Y)
                /\ mem[call[t].z_out] = lm.Z
                /\ Translation(lm) = Vec0 =>
                       /\ mem[call[t].x_out] = x
                       /\ mem[call[t].y_out] = y
                       /\ mem[call[t].z_out] = Zero

C4_Witness ==
    /\ Done(1) /\ Called(1, "transformLM2World") /\ Rotation(LmPose(1)) = Vec0
    /\ LmPose(1).X # Zero /\ LmPose(1).Z # Zero
    /\ mem0[call[1].x_in] # Zero /\ mem0[call[1].y_in] # Zero
    /\ mem[call[1].z_out] = LmPose(1).Z

\* C6: transformLM2World never prints and always writes its three outputs;
\* transformLM2Img prints the diagnostic and leaves x_out and y_out untouched
\* exactly when transformWorld2Img does so for the intermediate world point,
\* and neither prints nor fails otherwise.
C6_Propagation ==
    \A t \in Threads :
        Done(t) =>
            /\ Called(t, "transformLM2World") =>
                   /\ Printed(t) = <<>>
                   /\ Wrote(t, call[t].x_out)
                   /\ Wrote(t, call[t].y_out)
                   /\ Wrote(t, call[t].z_out)
            /\ ~Called(t, "transformLM2World") =>
                   IF DepthIsZero(Project(CameraIntrinsics(t), CamPoint(t)))
                   THEN Printed(t) = Diagnostic(t) /\ OutputsUntouched(t)
                   ELSE /\ Printed(t) = <<>>
                        /\ Wrote(t, call[t].x_out)
                        /\ Wrote(t, call[t].y_out)

C6_Witness ==
    /\ Done(1) /\ Called(1, "transformLM2Img")
    /\ Printed(1) = Diagnostic(1) /\ OutputsUntouched(1)
    /\ Wrote(1, Ptr(1, "z_w"))
    /\ CameraPose(1) # LmPose(1)

\* C7: transformWorld2Img prints and returns early if and only if the depth is
\* exactly zero; for any other depth, however small, it prints nothing and
\* writes both outputs; it never writes exactly one of them.
C7_ExactZero ==
    \A t \in Threads :
        (Done(t) /\ Called(t, "transformWorld2Img")) =>
            /\ Printed(t) = Diagnostic(t) <=> CamPoint(t)[3] = Zero
            /\ Printed(t) # <<>> <=> CamPoint(t)[3] = Zero
            /\ CamPoint(t)[3] # Zero =>
                   Wrote(t, call[t].x_out) /\ Wrote(t, call[t].y_out)
            /\ Wrote(t, call[t].x_out) <=> Wrote(t, call[t].y_out)

\* The smallest positive depth: one quantum.
C7_Witness ==
    /\ Done(1) /\ Called(1, "transformWorld2Img")
    /\ CamPoint(1)[3] = 1
    /\ Printed(1) = <<>>
    /\ Wrote(1, call[1].x_out) /\ Wrote(1, call[1].y_out)

SamePoseCall(t) ==
    /\ Done(t)
    /\ Called(t, "transformLM2Img")
    /\ CameraPose(t) = LmPose(t)

\* C9, as stated: with camera_pose equal to lm_pose the camera-relative point
\* is (x, y, 0) for every pose, so transformLM2Img takes the degenerate path
\* and leaves its outputs as they were.
C9_ExactInverse ==
    \A t \in Threads :
        SamePoseCall(t) =>
            /\ CamPoint(t) = <<mem0[call[t].x_in], mem0[call[t].y_in], Zero>>
            /\ Printed(t) = Diagnostic(t)
            /\ OutputsUntouched(t)

\* The weaker reading of C9: the degenerate path alone.
C9_AlwaysDegenerate ==
    \A t \in Threads :
        SamePoseCall(t) => Printed(t) = Diagnostic(t) /\ OutputsUntouched(t)

\* C9, amended: with camera_pose equal to lm_pose and a zero rotation vector
\* the camera-relative point is ((x+tx)-tx, (y+ty)-ty, 0) as T rounds it, so
\* transformLM2Img takes the degenerate path and leaves its outputs as they were.
C9_ZeroRotationInverse ==
    \A t \in Threads :
        (SamePoseCall(t) /\ Rotation(LmPose(t)) = Vec0) =>
            LET x == mem0[call[t].x_in]
                y == mem0[call[t].y_in]
                lm == LmPose(t)
            IN  /\ CamPoint(t) =
                       <<TSub(TAdd(x, lm.X), lm.X), TSub(TAdd(y, lm.Y), lm.Y), Zero>>
                /\ Printed(t) = Diagnostic(t)
                /\ OutputsUntouched(t)

C9_Witness ==
    /\ SamePoseCall(1) /\ Rotation(LmPose(1)) = Vec0
    /\ LmPose(1).X # Zero /\ LmPose(1).Z # Zero
    /\ mem0[call[1].x_in] # Zero
    /\ Printed(1) = Diagnostic(1)

(***************************************************************************)
(* Two calls at once (specification SpecTwoCalls)                          *)
(***************************************************************************)
PoseA == PoseOf(<<TransStep, Zero, One>>, <<Half, Quarter, Zero>>)
PoseB == PoseOf(<<Zero, Zero, One>>, <<Zero, -Half, Half>>)
IntrinsicsA ==
    [f |-> 2 * One, u0 |-> Half, v0 |-> One, alpha |-> One + Half, beta |-> One,
     theta |-> Zero]

TwoCallsInputs(fn) ==
    CASE fn = "transformLM2World" ->
             {Input(One, -Half, Zero, lm, ZeroPose, ZeroIntrinsics) :
                 lm \in {ZeroPose, PoseA}}
      [] fn = "transformWorld2Img" ->
             {Input(One, -Half, z, ZeroPose, cam, IntrinsicsA) :
                 z \in {Zero, One}, cam \in {ZeroPose, PoseB}}
      [] fn = "transformLM2Img" ->
             {Input(One, -Half, Zero, lm, cam, IntrinsicsA) :
                 lm \in {ZeroPose, PoseA}, cam \in {ZeroPose, PoseB}}

\* Inputs that differ from i in the theta slot, in the point, or in one row of
\* the intrinsics.
Variations(i) ==
    LET k == i.camera_intrinsics
    IN  { i,
          [i EXCEPT !.camera_intrinsics = [k EXCEPT !.theta = One]],
          [i EXCEPT !.y = Half,
                    !.camera_intrinsics =
                        [k EXCEPT !.theta = One, !.beta = 2 * One, !.v0 = Zero]],
          [i EXCEPT !.x = -One,
                    !.camera_intrinsics =
                        [k EXCEPT !.theta = One, !.alpha = One, !.u0 = Zero]] }

\* The second call reads its poses and intrinsics from its own arrays or, as
\* callers that share one camera do, from the first call's.
SecondCall(fn, shared) ==
    IF shared
    THEN [OwnCall(2, fn) EXCEPT
              !.lm_pose = IF @ = NullArr THEN @ ELSE Arr(1, "lm_pose"),
              !.camera_pose = IF @ = NullArr THEN @ ELSE Arr(1, "camera_pose"),
              !.camera_intrinsics =
                  IF @ = NullArr THEN @ ELSE Arr(1, "camera_intrinsics")]
    ELSE OwnCall(2, fn)

InitTwoCalls ==
    \E fn1 \in Functions, fn2 \in Functions \cup {"none"}, shared \in BOOLEAN :
    \E i1 \in TwoCallsInputs(fn1) :
    \E i2 \in IF fn2 = "none" THEN {NoInput}
              ELSE IF fn2 = fn1 THEN Variations(i1) ELSE TwoCallsInputs(fn2) :
        /\ shared => fn2 # "none"
        /\ Enter([t \in Threads |->
                     IF t = 1 THEN OwnCall(1, fn1)
                     ELSE IF t = 2 THEN SecondCall(fn2, shared) ELSE NoFrame],
                 [t \in Threads |->
                     IF t = 1 THEN i1 ELSE IF t = 2 THEN i2 ELSE NoInput])

SpecTwoCalls == InitTwoCalls /\ [][Next]_vars

\* A call that projects: transformWorld2Img or transformLM2Img.
Projects(t) == Called(t, "transformWorld2Img") \/ Called(t, "transformLM2Img")

\* The values thread t's call was given, the theta slot left out.
GivenButTheta(t) ==
    << call[t].fn, mem0[call[t].x_in], mem0[call[t].y_in],
       IF Called(t, "transformWorld2Img") THEN mem0[call[t].z_in] ELSE Zero,
       IF Called(t, "transformLM2Img") THEN LmPose(t) ELSE ZeroPose,
       CameraPose(t),
       [CameraIntrinsics(t) EXCEPT !.theta = Zero],
       mem0[call[t].x_out], mem0[call[t].y_out] >>

\* What an observer sees of a finished projecting call.
Outcome(t) ==
    << [i \in 1..Len(Printed(t)) |-> Printed(t)[i][2]],
       Wrote(t, call[t].x_out), Wrote(t, call[t].y_out),
       mem[call[t].x_out], mem[call[t].y_out] >>

\* C5: two projecting calls whose inputs agree on everything but the theta
\* slot have the same outcome; and x_out is a function of (f, alpha, u0, px, pz)
\* alone, y_out of (f, beta, v0, py, pz) alone.
C5_ThetaUnused ==
    \A t \in Threads, u \in Threads :
        (Done(t) /\ Done(u) /\ Projects(t) /\ Projects(u)) =>
            LET p == CamPoint(t)
                q == CamPoint(u)
                k == CameraIntrinsics(t)
                l == CameraIntrinsics(u)
            IN  /\ GivenButTheta(t) = GivenButTheta(u) => Outcome(t) = Outcome(u)
                /\ ( /\ p[3] # Zero /\ p[3] = q[3] /\ p[1] = q[1]
                     /\ k.f = l.f /\ k.alpha = l.alpha /\ k.u0 = l.u0 )
                   => mem[call[t].x_out] = mem[call[u].x_out]
                /\ ( /\ p[3] # Zero /\ p[3] = q[3] /\ p[2] = q[2]
                     /\ k.f = l.f /\ k.beta = l.beta /\ k.v0 = l.v0 )
                   => mem[call[t].y_out] = mem[call[u].y_out]

\* Two finished calls that differ in theta, py, beta and v0 only: the same
\* x_out, another y_out.
C5_Witness ==
    /\ Done(1) /\ Done(2) /\ Projects(1) /\ Projects(2)
    /\ CameraIntrinsics(1).theta # CameraIntrinsics(2).theta
    /\ CameraIntrinsics(1).beta # CameraIntrinsics(2).beta
    /\ CamPoint(1)[3] # Zero
    /\ CamPoint(1)[1] = CamPoint(2)[1] /\ CamPoint(1)[3] = CamPoint(2)[3]
    /\ CamPoint(1)[2] # CamPoint(2)[2]
    /\ Wrote(1, call[1].x_out) /\ Wrote(2, call[2].x_out)
    /\ mem[call[1].x_out] = mem[call[2].x_out]
    /\ mem[call[1].y_out] # mem[call[2].y_out]

\* The cells thread t's call may read and may write: what its arguments point
\* to, and its own x_w, y_w, z_w.
OwnLocals(t) == {Ptr(t, obj) : obj \in LocalObjs}
InputCells(t) ==
    LET c == call[t]
    IN  ({c.x_in, c.y_in, c.z_in} \ {Null})
        \cup (IF c.lm_pose = NullArr THEN {} ELSE {At(c.lm_pose, s) : s \in POSE})
        \cup (IF c.camera_pose = NullArr THEN {}
              ELSE {At(c.camera_pose, s) : s \in POSE})
        \cup (IF c.camera_intrinsics = NullArr THEN {}
              ELSE {At(c.camera_intrinsics, s) : s \in INTRINSICS})
OutputCells(t) == {call[t].x_out, call[t].y_out, call[t].z_out} \ {Null}

OwnAccessesOnly(t) ==
    \A i \in 1..Len(acc[t]) :
        IF acc[t][i][1] = "r"
        THEN acc[t][i][2] \in InputCells(t) \cup OwnLocals(t)
        ELSE acc[t][i][2] \in OutputCells(t) \cup OwnLocals(t)

\* The outcome of thread t's call when nothing else runs: what the statements
\* of its function compute from the values given at entry.
AsAlone(t) ==
    IF Called(t, "transformLM2World")
    THEN LET p_w == LM2WorldPoint(mem0[call[t].x_in], mem0[call[t].y_in], LmPose(t))
         IN  /\ Printed(t) = <<>>
             /\ mem[call[t].x_out] = p_w[1]
             /\ mem[call[t].y_out] = p_w[2]
             /\ mem[call[t].z_out] = p_w[3]
    ELSE IF DepthIsZero(Project(CameraIntrinsics(t), CamPoint(t)))
    THEN /\ Printed(t) = Diagnostic(t)
         /\ mem[call[t].x_out] = mem0[call[t].x_out]
         /\ mem[call[t].y_out] = mem0[call[t].y_out]
    ELSE LET img == World2ImgPoint(WorldPoint(t), CameraPose(t), CameraIntrinsics(t))
         IN  /\ Printed(t) = <<>>
             /\ mem[call[t].x_out] = img[1]
             /\ mem[call[t].y_out] = img[2]

\* C8, as stated: interleaved calls each read only their inputs, write only
\* their outputs and end as they would alone, and none touches shared mutable
\* state.
C8_NoSharedState ==
    /\ \A t \in Threads : OwnAccessesOnly(t)
    /\ \A t \in Threads : Done(t) => AsAlone(t)
    /\ cout = <<>>

\* C8, amended: interleaved calls each read only their inputs, write only
\* their outputs and end as they would alone; the one shared mutable object a
\* call touches is std::cout, on the degenerate path only, where each call
\* inserts its message and then its end of line.
C8_Interleaved ==
    /\ \A t \in Threads : OwnAccessesOnly(t)
    /\ \A t \in Threads : Done(t) => AsAlone(t)
    /\ \A t \in Threads :
           Printed(t) # <<>> =>
               /\ Projects(t)
               /\ DepthIsZero(Project(CameraIntrinsics(t), CamPoint(t)))
               /\ \E n \in 1..2 : Printed(t) = SubSeq(Diagnostic(t), 1, n)

\* Two transformLM2Img calls sharing one camera pose, both done on the
\* degenerate path, their diagnostics interleaved on std::cout.
C8_Witness ==
    /\ Done(1) /\ Done(2)
    /\ Called(1, "transformLM2Img") /\ Called(2, "transformLM2Img")
    /\ call[2].camera_pose = call[1].camera_pose
    /\ AsAlone(1) /\ AsAlone(2)
    /\ Len(cout) = 4
    /\ cout[1][1] # cout[2][1]
    /\ cout[2][2] # "endl"

(***************************************************************************)
(* One call whose outputs alias its inputs (specification SpecAliased)     *)
(***************************************************************************)
AliasedInputs(fn) ==
    CASE fn = "transformLM2World" ->
             {Input(One, -Half, Zero, lm, ZeroPose, ZeroIntrinsics) :
                 lm \in {PoseA, PoseB}}
      [] fn = "transformWorld2Img" ->
             {Input(One, -Half, z, ZeroPose, cam, IntrinsicsA) :
                 z \in {Zero, One}, cam \in {ZeroPose, PoseB}}
      [] fn = "transformLM2Img" ->
             {Input(One, -Half, Zero, lm, cam, IntrinsicsA) :
                 lm \in {ZeroPose, PoseA}, cam \in {ZeroPose, PoseB}}

\* Where an output pointer of a call of fn may point: at the output object,
\* at an input point coordinate, or into an input array.
OutputTargets(fn, own) ==
    {Ptr(1, own), Ptr(1, "x_in"), Ptr(1, "y_in")}
    \cup (IF fn = "transformWorld2Img" THEN {Ptr(1, "z_in")}
          ELSE {At(Arr(1, "lm_pose"), "Y"), At(Arr(1, "lm_pose"), "Rz")})
    \cup (IF fn = "transformLM2World" THEN {}
          ELSE {At(Arr(1, "camera_pose"), "Z"), At(Arr(1, "camera_pose"), "Rx"),
                At(Arr(1, "camera_intrinsics"), "beta"),
                At(Arr(1, "camera_intrinsics"), "v0")})

InitAliased ==
    \E fn \in Functions : \E i \in AliasedInputs(fn) :
    \E xo \in OutputTargets(fn, "x_out"), yo \in OutputTargets(fn, "y_out"),
       zo \in IF fn = "transformLM2World" THEN OutputTargets(fn, "z_out") ELSE {Null} :
        /\ Cardinality({xo, yo, zo}) = 3
        /\ Enter([t \in Threads |->
                     IF t = 1
                     THEN [OwnCall(1, fn) EXCEPT !.x_out = xo, !.y_out = yo, !.z_out = zo]
                     ELSE NoFrame],
                 [t \in Threads |-> IF t = 1 THEN i ELSE NoInput])

SpecAliased == InitAliased /\ [][Next]_vars

\* Every read of a caller's cell precedes every write to a caller's cell.
ReadsBeforeWrites(t) ==
    \A i \in 1..Len(acc[t]), j \in 1..Len(acc[t]) :
        ( /\ acc[t][i][1] = "w" /\ acc[t][i][2] \notin OwnLocals(t)
          /\ acc[t][j][1] = "r" /\ acc[t][j][2] \notin OwnLocals(t) )
        => j < i

\* Writes go through the output pointers (or to x_w, y_w, z_w) only.
WritesThroughOutputsOnly(t) ==
    \A i \in 1..Len(acc[t]) :
        acc[t][i][1] = "w" => acc[t][i][2] \in OutputCells(t) \cup OwnLocals(t)

Aliased(t) == OutputCells(t) \cap InputCells(t) # {}

\* C10: every read of a caller-supplied input precedes the first write to a
\* caller-supplied output, no cell is written except through an output pointer,
\* and a call whose outputs alias its inputs writes the values that the same
\* call with disjoint outputs writes.
C10_AliasSafe ==
    \A t \in Threads :
        /\ ReadsBeforeWrites(t)
        /\ WritesThroughOutputsOnly(t)
        /\ Done(t) => AsAlone(t)

C10_Witness ==
    /\ Done(1) /\ Called(1, "transformLM2Img") /\ Aliased(1)
    /\ call[1].x_out = At(call[1].lm_pose, "Y")
    /\ call[1].y_out = At(call[1].camera_pose, "Z")
    /\ Wrote(1, call[1].x_out) /\ Wrote(1, call[1].y_out)
    /\ mem[call[1].x_out] # mem0[call[1].x_out]
    /\ AsAlone(1)

====
